---- MODULE Spec2Model ----
(***************************************************************************)
(* Model of the Matrix core (src/src/matrix.rs) and of Operation           *)
(* (src/src/operation.rs) of the linear-algebra program.                   *)
(*                                                                         *)
(* A Matrix is the record [rows, cols, data]; data is the Vec<i32>, so the *)
(* code's 0-based buffer position k is data[k + 1] here.  Four             *)
(* specifications share the variables:                                     *)
(*   Spec        the program around one Operation (deserialized, then      *)
(*               do_operation / do_operation_and_store / Display);         *)
(*   MatrixSpec  the Matrix interface called on one Matrix value;          *)
(*   SetSpec     indexed reads and assignments, with their history;        *)
(*   ArithSpec   the products on elements at the ends of the i32 range,    *)
(*               in a build with and in a build without overflow checks.   *)
(* Matrix::mul_mat is not atomic: MulBegin opens the crossbeam scope, one  *)
(* TaskStep writes one cell of one row task, ScopeJoin is the join.        *)
(***************************************************************************)
EXTENDS Integers, Sequences, FiniteSets, TLC

VARIABLES
    left_operand,   \* Operation.left_operand
    operator,       \* Operation.operator
    right_operand,  \* Operation.right_operand
    result,         \* Operation.result, the RefCell<Option<Matrix>>
    mat,            \* the Matrix value the Matrix interface is called on
    call,           \* the last call made by the caller and its outcome
    scope,          \* the crossbeam scope of a running mul_mat
    overflow_checks,\* the build: TRUE when i32 overflow is checked (it panics)
    expected        \* history: what each position [r, c] of mat was built
                    \* with, or the last value a caller assigned to it

vars == <<left_operand, operator, right_operand, result, mat, call, scope,
          overflow_checks, expected>>

(***************************************************************************)
(* Bounds of the model.                                                    *)
(***************************************************************************)
\* largest rows / cols of an enumerated matrix, and largest index tried
MaxDim == 2
\* longest data buffer of an enumerated matrix in MatrixSpec
MaxLen == 4
\* longest data buffer of an enumerated operand: of the Operation in Spec,
\* and the right-hand side of add_mat, sub_mat and mul_mat in MatrixSpec
MaxOpLen == 2
\* largest magnitude of a scalar factor
MaxScalar == 2
\* longest data buffer of a matrix of ArithSpec
MaxArithLen == 2

\* the i32 elements the enumerated buffers are built from
Vals == {-1, 2}
\* how far a described buffer's length may be from rows * cols
Skews == {-1, 0, 1}
Scalars == (0 - MaxScalar)..MaxScalar
\* the i32 elements and scalars of ArithSpec: the ends of the i32 range and
\* two small factors
ArithVals == {2147483647, (0 - 2147483647) - 1, -1, 2}

(***************************************************************************)
(* Values.                                                                 *)
(***************************************************************************)
Min(a, b) == IF a < b THEN a ELSE b
Max(a, b) == IF a < b THEN b ELSE a

\* a struct literal Matrix { rows, cols, data }
Matrix(rows, cols, data) == [rows |-> rows, cols |-> cols, data |-> data]

\* Option<Matrix>
None == [some |-> FALSE, val |-> Matrix(0, 0, <<>>)]
Some(m) == [some |-> TRUE, val |-> m]

\* a call that returned v / a call that panicked with message msg
NoValue == <<>>
Ok(v) == [ok |-> TRUE, val |-> v, msg |-> ""]
Panic(msg) == [ok |-> FALSE, val |-> NoValue, msg |-> msg]

\* the first panic of a sequence of outcomes, or the sequence of their values
collect(outs) ==
    IF \E i \in 1..Len(outs) : ~outs[i].ok
    THEN outs[CHOOSE i \in 1..Len(outs) :
                 ~outs[i].ok /\ \A j \in 1..(i - 1) : outs[j].ok]
    ELSE Ok([i \in 1..Len(outs) |-> outs[i].val])

(***************************************************************************)
(* i32 arithmetic.  The operators + - * of the code are the checked ones   *)
(* in a build with overflow checks (they panic on overflow) and the        *)
(* wrapping ones in a build without.  Every value here is inside the i32   *)
(* range, and no intermediate value leaves it.                             *)
(***************************************************************************)
I32Max == 2147483647
I32Min == (0 - I32Max) - 1

\* the mathematical a + b, a - b lies outside the i32 range
AddOverflows(a, b) == IF b >= 0 THEN a > I32Max - b ELSE a < I32Min - b
SubOverflows(a, b) == IF b >= 0 THEN a < I32Min + b ELSE a > I32Max + b

\* i32::wrapping_add, i32::wrapping_sub
wrapping_add(a, b) ==
    IF ~AddOverflows(a, b) THEN a + b
    ELSE IF b >= 0 THEN (a + I32Min) + (b + I32Min)
    ELSE (a - I32Min) + (b - I32Min)
wrapping_sub(a, b) ==
    IF ~SubOverflows(a, b) THEN a - b
    ELSE IF b >= 0 THEN (a - I32Min) - (b + I32Min)
    ELSE (a + I32Min) - (b - I32Min)

\* the 32 bits of a in two's complement, as four bytes, lowest first
Bytes(a) ==
    LET low == IF a >= 0 THEN a ELSE a - I32Min
    IN  <<low % 256, (low \div 256) % 256, (low \div 65536) % 256,
          (low \div 16777216) + (IF a >= 0 THEN 0 ELSE 128)>>
FromBytes(b) ==
    (IF b[4] >= 128 THEN b[4] - 256 ELSE b[4]) * 16777216
        + b[3] * 65536 + b[2] * 256 + b[1]

\* i32::wrapping_mul: the low 32 bits of the product
wrapping_mul(a, b) ==
    LET x == Bytes(a)
        y == Bytes(b)
        c1 == x[1] * y[1]
        c2 == x[1] * y[2] + x[2] * y[1] + c1 \div 256
        c3 == x[1] * y[3] + x[2] * y[2] + x[3] * y[1] + c2 \div 256
        c4 == x[1] * y[4] + x[2] * y[3] + x[3] * y[2] + x[4] * y[1]
                + c3 \div 256
    IN  FromBytes(<<c1 % 256, c2 % 256, c3 % 256, c4 % 256>>)

Abs(a) == IF a < 0 THEN 0 - a ELSE a

\* the mathematical a * b lies outside the i32 range
MulOverflows(a, b) ==
    IF a = 0 \/ b = 0 THEN FALSE
    ELSE IF a = I32Min THEN b # 1
    ELSE IF b = I32Min THEN a # 1
    ELSE IF (a > 0) = (b > 0)
    THEN Abs(a) > I32Max \div Abs(b)
    ELSE /\ Abs(a) > I32Max \div Abs(b)
         /\ ~(/\ I32Max % Abs(b) = Abs(b) - 1
               /\ Abs(a) = I32Max \div Abs(b) + 1)

\* a + b, a - b, a * b on i32
I32Add(a, b) ==
    IF ~AddOverflows(a, b) THEN Ok(a + b)
    ELSE IF overflow_checks THEN Panic("attempt to add with overflow")
    ELSE Ok(wrapping_add(a, b))
I32Sub(a, b) ==
    IF ~SubOverflows(a, b) THEN Ok(a - b)
    ELSE IF overflow_checks THEN Panic("attempt to subtract with overflow")
    ELSE Ok(wrapping_sub(a, b))
I32Mul(a, b) ==
    IF ~MulOverflows(a, b) THEN Ok(a * b)
    ELSE IF overflow_checks THEN Panic("attempt to multiply with overflow")
    ELSE Ok(wrapping_mul(a, b))

(***************************************************************************)
(* Iterator adaptors of the standard library, as the code chains them.     *)
(***************************************************************************)
Skip(s, n) == SubSeq(s, n + 1, Len(s))
Take(s, n) == SubSeq(s, 1, Min(n, Len(s)))
\* step_by(k), k > 0: the elements at 0, k, 2k, ...
StepBy(s, k) == [i \in 1..((Len(s) + k - 1) \div k) |-> s[(i - 1) * k + 1]]
Zip(a, b) == [i \in 1..Min(Len(a), Len(b)) |-> <<a[i], b[i]>>]
Zeros(n) == [i \in 1..n |-> 0]

(***************************************************************************)
(* Matrix                                                                  *)
(***************************************************************************)
\* the data.length == rows * cols invariant of the data model
WellFormed(m) == Len(m.data) = m.rows * m.cols

\* Matrix::new without its assertion
new_unchecked(cols, rows, data) == Ok(Matrix(rows, cols, data))
\* Matrix::new
new(cols, rows, data) ==
    IF cols * rows # Len(data)
    THEN Panic("assertion failed: left == right")
    ELSE Ok(Matrix(rows, cols, data))

\* Matrix::row_iter, collected
row_iter(m, row_num) ==
    IF ~(row_num < m.rows)
    THEN Panic("Row index out of bounds")
    ELSE Ok(Take(Skip(m.data, m.cols * row_num), m.cols))

\* col_iter striding by the number of rows
col_iter_row_stride(m, col_num) ==
    IF ~(col_num < m.cols)
    THEN Panic("Column index out of bounds")
    ELSE Ok(StepBy(Skip(m.data, col_num), Max(m.rows, 1)))
\* Matrix::col_iter, collected
col_iter(m, col_num) ==
    IF ~(col_num < m.cols)
    THEN Panic("Column index out of bounds")
    ELSE Ok(StepBy(Skip(m.data, col_num), m.cols))

\* the closure of the fold in mul_mat, folded from the left
RECURSIVE fold(_, _)
fold(sum, pairs) ==
    IF pairs = <<>>
    THEN Ok(sum)
    ELSE LET product == I32Mul(pairs[1][1], pairs[1][2])
             next == I32Add(sum, product.val)
         IN  IF ~product.ok THEN product
             ELSE IF ~next.ok THEN next
             ELSE fold(next.val, Tail(pairs))

\* what a row task stores in cell col_num of its part
cell(lhs, rhs, row_num, col_num) ==
    LET r == row_iter(lhs, row_num)
        c == col_iter(rhs, col_num)
    IN  IF ~r.ok THEN r
        ELSE IF ~c.ok THEN c
        ELSE fold(0, Zip(r.val, c.val))

\* add_mat without the assertion on rows
add_mat_unchecked_rows(m, rhs) ==
    IF m.cols # rhs.cols
    THEN Panic("assertion failed: left == right")
    ELSE LET data == collect([i \in 1..Min(Len(m.data), Len(rhs.data)) |->
                                 I32Add(m.data[i], rhs.data[i])])
         IN  IF ~data.ok THEN data
             ELSE Ok(Matrix(m.rows, m.cols, data.val))
\* Matrix::add_mat
add_mat(m, rhs) ==
    IF m.cols # rhs.cols
    THEN Panic("assertion failed: left == right")
    ELSE IF m.rows # rhs.rows
    THEN Panic("assertion failed: left == right")
    ELSE LET data == collect([i \in 1..Min(Len(m.data), Len(rhs.data)) |->
                                 I32Add(m.data[i], rhs.data[i])])
         IN  IF ~data.ok THEN data
             ELSE Ok(Matrix(m.rows, m.cols, data.val))

\* Matrix::sub_mat
sub_mat(m, rhs) ==
    IF m.cols # rhs.cols
    THEN Panic("assertion failed: left == right")
    ELSE IF m.rows # rhs.rows
    THEN Panic("assertion failed: left == right")
    ELSE LET data == collect([i \in 1..Min(Len(m.data), Len(rhs.data)) |->
                                 I32Sub(m.data[i], rhs.data[i])])
         IN  IF ~data.ok THEN data
             ELSE Ok(Matrix(m.rows, m.cols, data.val))

\* the element a checked index refers to: its buffer position and its value
Elem(m, pos) ==
    IF pos < Len(m.data)
    THEN Ok([pos |-> pos, num |-> m.data[pos + 1]])
    ELSE Panic("index out of bounds")

\* index without the assertion on the column
index_col_unchecked(m, idx) ==
    IF ~(idx[1] < m.rows)
    THEN Panic("Row index is greater than row dimension.")
    ELSE Elem(m, idx[1] * m.cols + idx[2])
\* Index<[usize; 2]>::index and IndexMut<[usize; 2]>::index_mut: the same
\* checks and the same position
index(m, idx) ==
    IF ~(idx[1] < m.rows)
    THEN Panic("Row index is greater than row dimension.")
    ELSE IF ~(idx[2] < m.cols)
    THEN Panic("Column index is greater than column dimension.")
    ELSE Elem(m, idx[1] * m.cols + idx[2])

\* m[idx] = v: the assignment through the reference index_mut returns
assign(m, idx, v) ==
    LET e == index(m, idx)
    IN  IF ~e.ok THEN e
        ELSE Ok([m EXCEPT !.data[e.val.pos + 1] = v])

\* the scalar product that multiplies the first element only
mul_scalar_first_only(m, rhs) ==
    LET data == collect([i \in 1..Len(m.data) |->
                           IF i = 1 THEN I32Mul(m.data[i], rhs)
                           ELSE Ok(m.data[i])])
    IN  IF ~data.ok THEN data
        ELSE Ok(Matrix(m.rows, m.cols, data.val))
\* Mul<i32> for Matrix
mul_scalar(m, rhs) ==
    LET data == collect([i \in 1..Len(m.data) |-> I32Mul(m.data[i], rhs)])
    IN  IF ~data.ok THEN data
        ELSE Ok(Matrix(m.rows, m.cols, data.val))

\* Mul<Matrix> for i32
scalar_mul(k, rhs) == mul_scalar(rhs, k)

(***************************************************************************)
(* Display                                                                 *)
(***************************************************************************)
\* the number of characters of the decimal form of n
RECURSIVE DecLen(_)
DecLen(n) ==
    IF n < 0 THEN 1 + DecLen(0 - n)
    ELSE IF n < 10 THEN 1
    ELSE 1 + DecLen(n \div 10)

\* "{: >6} ": the number right-aligned in at least 6 characters, then a space
FormatCell(n) == [pad |-> Max(0, 6 - DecLen(n)), num |-> n, sep |-> " "]

\* Display for Matrix: one line per row; each cell is read by index
matrix_fmt(m) ==
    LET at(r, c) == index(m, <<r - 1, c - 1>>)
        failed == {rc \in (1..m.rows) \X (1..m.cols) : ~at(rc[1], rc[2]).ok}
    IN  IF failed # {}
        THEN Panic("index out of bounds")
        ELSE Ok([r \in 1..m.rows |->
                    [c \in 1..m.cols |-> FormatCell(at(r, c).val.num)]])

\* Display for Operator
operator_fmt(op) ==
    CASE op = "Multiply" -> "Multiplied by\n"
      [] op = "Add" -> "Added to\n"
      [] op = "Subtract" -> "Minus\n"

\* the pieces of the formatted output: literal text, or a displayed matrix
Text(s) == [kind |-> "text", text |-> s, lines |-> <<>>]
Shown(lines) == [kind |-> "matrix", text |-> "", lines |-> lines]

\* Display for Operation without the test of the cache
operation_fmt_always_equals(left, op, right, res) ==
    LET l == matrix_fmt(left)
        r == matrix_fmt(right)
        m == matrix_fmt(res.val)
    IN  IF ~l.ok THEN l
        ELSE IF ~r.ok THEN r
        ELSE IF ~m.ok THEN m
        ELSE Ok(<<Text("\n"), Shown(l.val), Text("\n"), Text(operator_fmt(op)),
                  Text("\n"), Shown(r.val),
                  Text("\n"), Text("Equals"), Text("\n\n"), Shown(m.val)>>)
\* Display for Operation
operation_fmt(left, op, right, res) ==
    LET l == matrix_fmt(left)
        r == matrix_fmt(right)
        m == matrix_fmt(res.val)
        output == <<Shown(l.val), Text("\n"), Text(operator_fmt(op)),
                    Text("\n"), Shown(r.val)>>
    IN  IF ~l.ok THEN l
        ELSE IF ~r.ok THEN r
        ELSE IF ~res.some THEN Ok(output)
        ELSE IF ~m.ok THEN m
        ELSE Ok(<<Text("\n")>> \o output
                 \o <<Text("\n"), Text("Equals"), Text("\n\n"), Shown(m.val)>>)

(***************************************************************************)
(* Operation                                                               *)
(***************************************************************************)
Operators == {"Multiply", "Add", "Subtract"}

\* the match of Operation::do_operation: the routine each Operator selects
do_operation_match(op) ==
    CASE op = "Add" -> "add_mat"
      [] op = "Subtract" -> "sub_mat"
      [] op = "Multiply" -> "mul_mat"

\* a store that keeps a cached matrix
store_if_empty(cache, matr) == IF cache.some THEN cache ELSE Some(matr)
\* self.result.replace(Some(matr)) of do_operation_and_store
store(cache, matr) == Some(matr)

(***************************************************************************)
(* Inputs the model enumerates.                                            *)
(***************************************************************************)
Buffers(maxlen) == UNION {[1..n -> Vals] : n \in 0..maxlen}

\* the matrix descriptions {rows, cols, data} a caller or a file can supply
Descriptions(maxlen) ==
    LET all == {t \in (0..MaxDim) \X (0..MaxDim) \X Buffers(maxlen) :
                    (Len(t[3]) - t[1] * t[2]) \in Skews}
    IN  {Matrix(t[1], t[2], t[3]) : t \in all}

MatrixInputs == Descriptions(MaxLen)
OperandInputs == Descriptions(MaxOpLen)
\* the "result" a described Operation may carry
ResultInputs ==
    {None, Some(Matrix(1, 1, <<2>>)), Some(Matrix(2, 1, <<-1>>))}

(***************************************************************************)
(* Calls and their outcomes.                                               *)
(***************************************************************************)
NoCall == [fn |-> "none", args |-> <<>>, status |-> "none", msg |-> "",
           value |-> NoValue]
Running(fn, args) == [fn |-> fn, args |-> args, status |-> "running",
                      msg |-> "", value |-> NoValue]
Call(fn, args, out) ==
    [fn |-> fn, args |-> args,
     status |-> IF out.ok THEN "ok" ELSE "panic",
     msg |-> out.msg, value |-> out.val]

NoMatrix == Matrix(0, 0, <<>>)
\* writers is history: for each position of matr_data, the row_num of every
\* task that stored into it, in the order of the stores
IdleScope == [active |-> FALSE, caller |-> "", lhs |-> NoMatrix,
              rhs |-> NoMatrix, matr_data |-> <<>>, parts |-> <<>>,
              tasks |-> <<>>, writers |-> <<>>]

\* parts that all start at the head of the buffer
Chunks_overlapping(len, size) ==
    [i \in 1..((len + size - 1) \div size) |->
        [start |-> 0, len |-> Min(size, len - (i - 1) * size)]]
\* chunks_mut(size), size > 0, of a buffer of len elements: each part's
\* offset in the buffer and its length
Chunks(len, size) ==
    [i \in 1..((len + size - 1) \div size) |->
        [start |-> (i - 1) * size, len |-> Min(size, len - (i - 1) * size)]]

\* mul_mat up to the end of the spawning loop: the assertion, the output
\* buffer, its parts, one task per part
mul_begin(caller, lhs, rhs) ==
    IF lhs.cols # rhs.rows
    THEN Panic("assertion failed: left == right")
    ELSE IF rhs.cols = 0
    THEN Panic("assertion failed: chunk_size != 0")
    ELSE LET parts == Chunks(lhs.rows * rhs.cols, rhs.cols)
         IN  Ok([active |-> TRUE, caller |-> caller, lhs |-> lhs, rhs |-> rhs,
                 matr_data |-> Zeros(lhs.rows * rhs.cols),
                 parts |-> parts,
                 tasks |-> [i \in 1..Len(parts) |->
                               [next |-> 0, panicked |-> FALSE]],
                 writers |-> [k \in 1..(lhs.rows * rhs.cols) |-> <<>>]])

\* a call of do_operation or do_operation_and_store returns out to its caller
Return(caller, args, out) ==
    IF caller = "do_operation_and_store" /\ out.ok
    THEN /\ result' = store(result, out.val)
         /\ call' = Call(caller, args, Ok(NoValue))
    ELSE /\ result' = result
         /\ call' = Call(caller, args, out)

MulBegin(caller, args, lhs, rhs) ==
    LET out == mul_begin(caller, lhs, rhs)
    IN  IF out.ok
        THEN /\ scope' = out.val
             /\ call' = Running(caller, args)
             /\ result' = result
        ELSE /\ scope' = scope
             /\ Return(caller, args, out)

\* one iteration of the loop of the row task of part i
TaskStep(i) ==
    /\ scope.active
    /\ i \in 1..Len(scope.tasks)
    /\ ~scope.tasks[i].panicked
    /\ scope.tasks[i].next < scope.parts[i].len
    /\ LET col_num == scope.tasks[i].next
           out == cell(scope.lhs, scope.rhs, i - 1, col_num)
       IN  scope' =
             IF out.ok
             THEN [scope EXCEPT
                     !.matr_data[scope.parts[i].start + col_num + 1] = out.val,
                     !.writers[scope.parts[i].start + col_num + 1] =
                         Append(@, i - 1),
                     !.tasks[i].next = col_num + 1]
             ELSE [scope EXCEPT !.tasks[i].panicked = TRUE]
    /\ UNCHANGED <<left_operand, operator, right_operand, result, mat, call,
                   overflow_checks, expected>>

\* a scope that does not wait for its tasks
TaskDone_unjoined(i) == TRUE
\* the task of part i has ended: it panicked or its loop is over
TaskDone(i) ==
    \/ scope.tasks[i].panicked
    \/ scope.tasks[i].next = scope.parts[i].len

\* the scope ends when every task has ended; unwrap, then the Matrix is built
ScopeJoin ==
    /\ scope.active
    /\ \A i \in 1..Len(scope.tasks) : TaskDone(i)
    /\ LET out ==
             IF \E i \in 1..Len(scope.tasks) : scope.tasks[i].panicked
             THEN Panic("called Result::unwrap() on an Err value")
             ELSE Ok(Matrix(scope.lhs.rows, scope.rhs.cols, scope.matr_data))
       IN  Return(scope.caller, call.args, out)
    /\ scope' = IdleScope
    /\ UNCHANGED <<left_operand, operator, right_operand, mat,
                   overflow_checks, expected>>

(***************************************************************************)
(* The history of the positions of mat, kept beside the program: the value *)
(* each position [r, c] with r < rows, c < cols was built with (none when  *)
(* the described buffer is too short to hold it), replaced by every value  *)
(* a caller assigns to that position.  SetSpec keeps it (tracked), the     *)
(* other specifications leave it empty.                                    *)
(***************************************************************************)
NoExpected == [tracked |-> FALSE, rows |-> 0, cols |-> 0, at |-> <<>>]
Tracked == [tracked |-> TRUE, rows |-> 0, cols |-> 0, at |-> <<>>]

Constructed(m) ==
    [tracked |-> TRUE, rows |-> m.rows, cols |-> m.cols,
     at |-> [p \in (0..(m.rows - 1)) \X (0..(m.cols - 1)) |->
               IF p[1] * m.cols + p[2] < Len(m.data)
               THEN [some |-> TRUE, val |-> m.data[p[1] * m.cols + p[2] + 1]]
               ELSE [some |-> FALSE, val |-> 0]]]

Built(e, m) == IF e.tracked THEN Constructed(m) ELSE e

Written(e, r, c, v) ==
    IF e.tracked /\ r < e.rows /\ c < e.cols
    THEN [e EXCEPT !.at[<<r, c>>] = [some |-> TRUE, val |-> v]]
    ELSE e

(***************************************************************************)
(* MatrixSpec: the life of one Matrix value, mat: it is built once, by     *)
(* Matrix::new or unchecked from a matrix description, and then used.      *)
(***************************************************************************)
MatrixInit ==
    /\ mat = None
    /\ call = NoCall
    /\ scope = IdleScope
    /\ left_operand = NoMatrix
    /\ operator = "Add"
    /\ right_operand = NoMatrix
    /\ result = None
    /\ overflow_checks = FALSE
    /\ expected = NoExpected

OperationUnchanged ==
    UNCHANGED <<left_operand, operator, right_operand, result, overflow_checks>>

\* a call on the built Matrix may start: it exists and no mul_mat is running
Idle == mat.some /\ ~scope.active

New(cols, rows, data) ==
    /\ ~mat.some
    /\ LET out == new(cols, rows, data)
       IN  /\ call' = Call("new", <<cols, rows, data>>, out)
           /\ mat' = IF out.ok THEN Some(out.val) ELSE mat
           /\ expected' = IF out.ok THEN Built(expected, out.val) ELSE expected
    /\ UNCHANGED scope
    /\ OperationUnchanged

\* the derived Deserialize of Matrix: the three fields as described
deserialize(desc) == Ok(Matrix(desc.rows, desc.cols, desc.data))

Deserialize(desc) ==
    /\ ~mat.some
    /\ LET out == deserialize(desc)
       IN  /\ call' = Call("deserialize", <<desc>>, out)
           /\ mat' = IF out.ok THEN Some(out.val) ELSE mat
           /\ expected' = IF out.ok THEN Built(expected, out.val) ELSE expected
    /\ UNCHANGED scope
    /\ OperationUnchanged

Index(r, c) ==
    /\ Idle
    /\ call' = Call("index", <<r, c>>, index(mat.val, <<r, c>>))
    /\ UNCHANGED <<mat, scope, expected>>
    /\ OperationUnchanged

IndexMut(r, c, v) ==
    /\ Idle
    /\ LET out == assign(mat.val, <<r, c>>, v)
       IN  /\ mat' = IF out.ok THEN Some(out.val) ELSE mat
           /\ call' = Call("index_mut", <<r, c, v>>,
                           IF out.ok THEN index(out.val, <<r, c>>) ELSE out)
    /\ expected' = Written(expected, r, c, v)
    /\ UNCHANGED scope
    /\ OperationUnchanged

RowIter(r) ==
    /\ Idle
    /\ call' = Call("row_iter", <<r>>, row_iter(mat.val, r))
    /\ UNCHANGED <<mat, scope, expected>>
    /\ OperationUnchanged

ColIter(c) ==
    /\ Idle
    /\ call' = Call("col_iter", <<c>>, col_iter(mat.val, c))
    /\ UNCHANGED <<mat, scope, expected>>
    /\ OperationUnchanged

AddMat(rhs) ==
    /\ Idle
    /\ call' = Call("add_mat", <<rhs>>, add_mat(mat.val, rhs))
    /\ UNCHANGED <<mat, scope, expected>>
    /\ OperationUnchanged

SubMat(rhs) ==
    /\ Idle
    /\ call' = Call("sub_mat", <<rhs>>, sub_mat(mat.val, rhs))
    /\ UNCHANGED <<mat, scope, expected>>
    /\ OperationUnchanged

MulMat(rhs) ==
    /\ Idle
    /\ MulBegin("mul_mat", <<rhs>>, mat.val, rhs)
    /\ UNCHANGED <<mat, left_operand, operator, right_operand,
                   overflow_checks, expected>>

MulScalar(k) ==
    /\ Idle
    /\ call' = Call("mul_scalar", <<k>>, mul_scalar(mat.val, k))
    /\ UNCHANGED <<mat, scope, expected>>
    /\ OperationUnchanged

ScalarMul(k) ==
    /\ Idle
    /\ call' = Call("scalar_mul", <<k>>, scalar_mul(k, mat.val))
    /\ UNCHANGED <<mat, scope, expected>>
    /\ OperationUnchanged

MatrixNext ==
    \/ \E d \in MatrixInputs : New(d.cols, d.rows, d.data)
    \/ \E d \in MatrixInputs : Deserialize(d)
    \/ \E r \in 0..MaxDim, c \in 0..MaxDim : Index(r, c)
    \/ \E r \in 0..MaxDim, c \in 0..MaxDim, v \in Vals : IndexMut(r, c, v)
    \/ \E r \in 0..MaxDim : RowIter(r)
    \/ \E c \in 0..MaxDim : ColIter(c)
    \/ \E rhs \in OperandInputs : AddMat(rhs)
    \/ \E rhs \in OperandInputs : SubMat(rhs)
    \/ \E rhs \in OperandInputs : MulMat(rhs)
    \/ \E k \in Scalars : MulScalar(k)
    \/ \E k \in Scalars : ScalarMul(k)
    \/ \E i \in 1..MaxDim : TaskStep(i)
    \/ ScopeJoin

MatrixSpec == MatrixInit /\ [][MatrixNext]_vars

(***************************************************************************)
(* SetSpec: one Matrix value, built by Matrix::new or from a description,  *)
(* then read and assigned by index, with the history of its positions.     *)
(***************************************************************************)
SetInit ==
    /\ mat = None
    /\ call = NoCall
    /\ scope = IdleScope
    /\ left_operand = NoMatrix
    /\ operator = "Add"
    /\ right_operand = NoMatrix
    /\ result = None
    /\ overflow_checks = FALSE
    /\ expected = Tracked

SetNext ==
    \/ \E d \in MatrixInputs : New(d.cols, d.rows, d.data)
    \/ \E d \in MatrixInputs : Deserialize(d)
    \/ \E r \in 0..MaxDim, c \in 0..MaxDim : Index(r, c)
    \/ \E r \in 0..MaxDim, c \in 0..MaxDim, v \in Vals : IndexMut(r, c, v)

SetSpec == SetInit /\ [][SetNext]_vars

(***************************************************************************)
(* ArithSpec: mul_mat and the scalar products on matrices whose elements   *)
(* reach the ends of the i32 range, in a build with and in a build without *)
(* overflow checks.  (The elements of Spec and of MatrixSpec are small: no *)
(* arithmetic of theirs overflows, so the build makes no difference        *)
(* there.)                                                                 *)
(***************************************************************************)
\* the matrices Matrix::new accepts, of 1 to MaxArithLen elements
ArithInputs ==
    {Matrix(t[1], t[2], t[3]) :
        t \in {u \in (1..MaxArithLen) \X (1..MaxArithLen)
                       \X UNION {[1..n -> ArithVals] : n \in 1..MaxArithLen} :
                  Len(u[3]) = u[1] * u[2]}}

ArithInit ==
    /\ mat = None
    /\ call = NoCall
    /\ scope = IdleScope
    /\ left_operand = NoMatrix
    /\ operator = "Multiply"
    /\ right_operand = NoMatrix
    /\ result = None
    /\ overflow_checks \in BOOLEAN
    /\ expected = NoExpected

ArithNext ==
    \/ \E d \in ArithInputs : New(d.cols, d.rows, d.data)
    \/ \E rhs \in ArithInputs : MulMat(rhs)
    \/ \E k \in ArithVals : MulScalar(k)
    \/ \E k \in ArithVals : ScalarMul(k)
    \/ \E i \in 1..MaxArithLen : TaskStep(i)
    \/ ScopeJoin

ArithSpec == ArithInit /\ [][ArithNext]_vars

(***************************************************************************)
(* Spec: the program around one Operation.                                 *)
(***************************************************************************)
\* the Operation as get_opt deserializes it from an operation description
Init ==
    /\ left_operand \in OperandInputs
    /\ operator \in Operators
    /\ right_operand \in OperandInputs
    /\ result \in ResultInputs
    /\ mat = None
    /\ call = NoCall
    /\ scope = IdleScope
    /\ overflow_checks = FALSE
    /\ expected = NoExpected

\* do_operation (caller "do_operation") and do_operation_and_store
Compute(caller) ==
    /\ ~scope.active
    /\ LET routine == do_operation_match(operator)
       IN  CASE routine = "add_mat" ->
                  /\ Return(caller, <<>>, add_mat(left_operand, right_operand))
                  /\ scope' = scope
             [] routine = "sub_mat" ->
                  /\ Return(caller, <<>>, sub_mat(left_operand, right_operand))
                  /\ scope' = scope
             [] routine = "mul_mat" ->
                  MulBegin(caller, <<>>, left_operand, right_operand)
    /\ UNCHANGED <<left_operand, operator, right_operand, mat,
                   overflow_checks, expected>>

DoOperation == Compute("do_operation")

DoOperationAndStore == Compute("do_operation_and_store")

Fmt ==
    /\ ~scope.active
    /\ call' = Call("fmt", <<>>,
                    operation_fmt(left_operand, operator, right_operand, result))
    /\ UNCHANGED <<left_operand, operator, right_operand, result, mat, scope,
                   overflow_checks, expected>>

Next ==
    \/ DoOperation
    \/ DoOperationAndStore
    \/ Fmt
    \/ \E i \in 1..MaxDim : TaskStep(i)
    \/ ScopeJoin

Spec == Init /\ [][Next]_vars

(***************************************************************************)
(* The claims.                                                             *)
(***************************************************************************)
\* the fixture of tests::test_row_and_col_iter_small
our_mat == Matrix(2, 3, <<1, 2, 3, 4, 5, 6>>)

\* element (i, j), 0-based, of a matrix whose buffer holds it
At(m, i, j) == m.data[i * m.cols + j + 1]

\* the sum over k in 0..n-1 of A[i,k] * B[k,j]
RECURSIVE SumProducts(_, _, _, _, _)
SumProducts(A, B, i, j, n) ==
    IF n = 0 THEN 0
    ELSE SumProducts(A, B, i, j, n - 1) + At(A, i, n - 1) * At(B, n - 1, j)

\* the matrix mul_mat assembles from the cells of its row tasks
MulValue(lhs, rhs) ==
    Matrix(lhs.rows, rhs.cols,
           [k \in 1..(lhs.rows * rhs.cols) |->
               cell(lhs, rhs, (k - 1) \div rhs.cols, (k - 1) % rhs.cols).val])

\* the matrix the routine of each Operator returns for the operands
Computed ==
    CASE operator = "Add" -> add_mat(left_operand, right_operand).val
      [] operator = "Subtract" -> sub_mat(left_operand, right_operand).val
      [] operator = "Multiply" -> MulValue(left_operand, right_operand)

\* the operands do not fit the Operator: add and subtract need equal rows
\* and cols, multiply needs left cols = right rows
ShapeMismatch ==
    IF operator = "Multiply"
    THEN left_operand.cols # right_operand.rows
    ELSE \/ left_operand.rows # right_operand.rows
         \/ left_operand.cols # right_operand.cols

OperandsUnchanged ==
    /\ left_operand' = left_operand
    /\ operator' = operator
    /\ right_operand' = right_operand

Finished(fns) == call.fn \in fns /\ call.status \in {"ok", "panic"}

\* C1 (as claimed): for matrices A of shape (m, n) and B of shape (n, p),
\* zero dimensions included, mul_mat returns, without failing, the m x p
\* matrix of m*p elements whose element (i,j) is the sum over k of
\* A[i,k] * B[k,j].
C1_MultiplyEveryShape ==
    (/\ Finished({"mul_mat"})
     /\ WellFormed(mat.val)
     /\ WellFormed(call.args[1])
     /\ mat.val.cols = call.args[1].rows)
    => LET A == mat.val
           B == call.args[1]
       IN  /\ call.status = "ok"
           /\ call.value.rows = A.rows
           /\ call.value.cols = B.cols
           /\ Len(call.value.data) = A.rows * B.cols
           /\ \A i \in 0..(A.rows - 1), j \in 0..(B.cols - 1) :
                 At(call.value, i, j) = SumProducts(A, B, i, j, A.cols)

\* C2 (as claimed): every Matrix value of the program has
\* data.length = rows * cols, whether built by Matrix::new, taken from a
\* matrix description, returned by an arithmetic routine or written by set.
C2_LengthInvariant ==
    /\ mat.some => WellFormed(mat.val)
    /\ (call.fn \in {"add_mat", "sub_mat", "mul_mat", "mul_scalar", "scalar_mul"}
          /\ call.status = "ok")
       => WellFormed(call.value)

\* C3: when the operands do not fit the Operator no scope is ever opened (no
\* output buffer, no task) and do_operation / do_operation_and_store end in a
\* panic with no matrix; a do_operation_and_store that panics leaves the
\* cache cell and the operands as they were.
C3_ShapeMismatchFailsFirst ==
    /\ [](ShapeMismatch =>
            /\ ~scope.active
            /\ call.fn \in {"do_operation", "do_operation_and_store"}
                 => call.status = "panic")
    /\ [][(call'.fn = "do_operation_and_store" /\ call'.status = "panic")
            => (result' = result /\ OperandsUnchanged)]_vars

C3_Witness ==
    /\ ShapeMismatch
    /\ call.fn = "do_operation_and_store"
    /\ call.status = "panic"
    /\ result.some
    /\ operator = "Multiply"

\* C4: Matrix::new(cols, rows, data) succeeds exactly when
\* data.length = cols * rows; the matrix then has those rows and cols, and
\* indexing [r, c] gives data[r * cols + c] for every r < rows, c < cols.
C4_ConstructRowMajor ==
    call.fn = "new" =>
        LET cols == call.args[1]
            rows == call.args[2]
            data == call.args[3]
        IN  /\ call.status = "ok" <=> Len(data) = cols * rows
            /\ call.status = "ok" =>
                 /\ mat.some
                 /\ mat.val.rows = rows
                 /\ mat.val.cols = cols
                 /\ \A r \in 0..(rows - 1), c \in 0..(cols - 1) :
                       /\ index(mat.val, <<r, c>>).ok
                       /\ index(mat.val, <<r, c>>).val.num = data[r * cols + c + 1]

C4_Witness ==
    /\ call.fn = "new"
    /\ call.status = "ok"
    /\ mat.val.rows = 2
    /\ mat.val.cols = 2

\* C5: index and index_mut panic whenever r >= rows or c >= cols; the
\* message names the row when the row is out of range and the column when
\* only the column is; a call that succeeds touched buffer position
\* r * cols + c and no other; an index_mut that panics leaves the matrix
\* unchanged.
C5_BoundsChecked ==
    /\ [](call.fn \in {"index", "index_mut"} =>
            LET r == call.args[1]
                c == call.args[2]
                m == mat.val
            IN  /\ (r >= m.rows \/ c >= m.cols) => call.status = "panic"
                /\ r >= m.rows =>
                     call.msg = "Row index is greater than row dimension."
                /\ (r < m.rows /\ c >= m.cols) =>
                     call.msg = "Column index is greater than column dimension."
                /\ call.status = "ok" => call.value.pos = r * m.cols + c)
    /\ [][(call'.fn = "index_mut" /\ call'.status = "panic") => mat' = mat]_vars

C5_Witness ==
    /\ call.fn = "index_mut"
    /\ call.status = "panic"
    /\ mat.val.rows = 2
    /\ call.args[1] = mat.val.rows
    /\ call.args[2] < mat.val.cols

\* C6 (as claimed): add_mat and sub_mat succeed exactly when rows and cols
\* of both operands are equal; the result then has that shape, rows * cols
\* elements, element by element the sum (the difference), and subtracting
\* the right operand from a sum gives back the left operand.
C6_AddSubtract ==
    Finished({"add_mat", "sub_mat"}) =>
        LET A == mat.val
            B == call.args[1]
            R == call.value
        IN  /\ call.status = "ok" <=> (A.rows = B.rows /\ A.cols = B.cols)
            /\ call.status = "ok" =>
                 /\ R.rows = A.rows
                 /\ R.cols = A.cols
                 /\ Len(R.data) = A.rows * A.cols
                 /\ \A k \in 1..Len(R.data) :
                       /\ k <= Len(A.data)
                       /\ k <= Len(B.data)
                       /\ R.data[k] = IF call.fn = "add_mat"
                                      THEN A.data[k] + B.data[k]
                                      ELSE A.data[k] - B.data[k]
                 /\ call.fn = "add_mat" =>
                       /\ sub_mat(R, B).ok
                       /\ sub_mat(R, B).val = A

\* C7: after a do_operation_and_store that returned, the cache cell holds
\* the matrix of the routine the Operator selects (Add add_mat, Subtract
\* sub_mat, Multiply mul_mat) for the operands, whatever it held before;
\* no step changes left_operand, operator or right_operand.
C7_StoreOverwrites ==
    /\ []((call.fn = "do_operation_and_store" /\ call.status = "ok")
            => result = Some(Computed))
    /\ [][OperandsUnchanged]_vars

C7_Witness ==
    /\ call.fn = "do_operation_and_store"
    /\ call.status = "ok"
    /\ operator = "Multiply"
    /\ Len(result.val.data) = 2

\* the formatted output without its line breaks
Sections(output) ==
    SelectSeq(output, LAMBDA t : ~(t.kind = "text" /\ t.text \in {"\n", "\n\n"}))

HasEquals(output) == \E k \in 1..Len(output) : output[k] = Text("Equals")

\* the left operand, the operator line, the right operand
OperandSections ==
    <<Shown(matrix_fmt(left_operand).val), Text(operator_fmt(operator)),
      Shown(matrix_fmt(right_operand).val)>>

C10_ScalarMultiply ==
    call.fn \in {"mul_scalar", "scalar_mul"} =>
        LET k == call.args[1]
            A == mat.val
            R == call.value
        IN  /\ call.status = "ok"
            /\ R.rows = A.rows
            /\ R.cols = A.cols
            /\ Len(R.data) = Len(A.data)
            /\ \A i \in 1..Len(A.data) : R.data[i] = A.data[i] * k
            /\ scalar_mul(k, A) = mul_scalar(A, k)

C10_Witness ==
    /\ call.fn = "scalar_mul"
    /\ call.args[1] = 0 - MaxScalar
    /\ Len(mat.val.data) = 4
    /\ WellFormed(mat.val)

\* the positions [r, c] with r < rows and c < cols
InRange(m) == (0..(m.rows - 1)) \X (0..(m.cols - 1))

\* the step is an index_mut with r < rows and c < cols
InRangeSet ==
    /\ call'.fn = "index_mut"
    /\ <<call'.args[1], call'.args[2]>> \in InRange(mat.val)

\* the assignment of the step returned and changed position [r, c] only
OnePositionChanged ==
    LET r == call'.args[1]
        c == call'.args[2]
        v == call'.args[3]
        old == mat.val
        now == mat'.val
    IN  /\ call'.status = "ok"
        /\ index(now, <<r, c>>) = Ok([pos |-> r * old.cols + c, num |-> v])
        /\ \A p \in InRange(old) \ {<<r, c>>} : index(now, p) = index(old, p)
        /\ now.rows = old.rows
        /\ now.cols = old.cols
        /\ Len(now.data) = Len(old.data)
        /\ \A k \in 1..Len(old.data) :
              k # r * old.cols + c + 1 => now.data[k] = old.data[k]

\* the last call was an index_mut with r < rows and c < cols
AfterInRangeSet ==
    /\ call.fn = "index_mut"
    /\ <<call.args[1], call.args[2]>> \in InRange(mat.val)

\* every position reads the last value assigned to it, or the value it was
\* built with if none was assigned
ReadsLastWritten ==
    /\ mat.val.rows = expected.rows
    /\ mat.val.cols = expected.cols
    /\ \A p \in InRange(mat.val) :
          /\ expected.at[p].some
          /\ index(mat.val, p).ok
          /\ index(mat.val, p).val.num = expected.at[p].val

\* C11 (as claimed): an index_mut with r < rows and c < cols, assigned v,
\* returns and changes exactly one buffer position: afterwards [r, c] reads
\* v, every other position reads what it read before, rows, cols and the
\* rest of the buffer are unchanged; after any sequence of such assignments
\* every position reads the last value assigned to it, or the value it was
\* built with if none was.
C11_SetChangesOnePosition ==
    /\ [][InRangeSet => OnePositionChanged]_vars
    /\ [](AfterInRangeSet => ReadsLastWritten)

\* C11 holds of the matrices with data.length = rows * cols, those that
\* Matrix::new builds
C11_OnWellFormed ==
    /\ [][(InRangeSet /\ WellFormed(mat.val)) => OnePositionChanged]_vars
    /\ []((AfterInRangeSet /\ WellFormed(mat.val)) => ReadsLastWritten)

\* the scope closes in this step
Joins == scope.active /\ ~scope'.active

\* C12: while mul_mat runs there is one task per row of self, self and rhs
\* stay as they were, and the task of row i has stored only into positions
\* i * rhs.cols .. (i + 1) * rhs.cols - 1 of the output, at most once into
\* each; when mul_mat returns a matrix every position has been stored into
\* exactly once, and the matrix is the one the cells of self and rhs
\* determine, whatever the order of the tasks' steps was.
C12_DisjointRowBlocks ==
    /\ [](scope.active =>
            /\ Len(scope.tasks) = scope.lhs.rows
            /\ Len(scope.writers) = scope.lhs.rows * scope.rhs.cols
            /\ \A k \in 1..Len(scope.writers) :
                  \/ scope.writers[k] = <<>>
                  \/ scope.writers[k] = <<(k - 1) \div scope.rhs.cols>>)
    /\ [][scope.active => (scope'.lhs = scope.lhs /\ scope'.rhs = scope.rhs)
                            \/ ~scope'.active]_vars
    /\ [][(Joins /\ call'.status = "ok")
            => /\ \A k \in 1..Len(scope.writers) :
                     scope.writers[k] = <<(k - 1) \div scope.rhs.cols>>
               /\ call'.value = MulValue(scope.lhs, scope.rhs)]_vars

\* two tasks, each has stored the first of the two cells of its block
C12_Witness ==
    /\ scope.active
    /\ scope.writers = <<<<0>>, <<>>, <<1>>, <<>>>>

\* C13: while tasks of mul_mat exist the caller holds no result and no
\* failure (the call is still running); the scope closes only when every
\* task has ended; mul_mat returns a matrix only from a scope in which every
\* task ran to the end of its block and every position was stored into, and
\* the matrix is that buffer; when a task panicked, mul_mat panics to its
\* caller and returns no matrix.
C13_JoinBeforeReturn ==
    /\ [](scope.active => call.status = "running")
    /\ [][(call'.fn = "mul_mat" /\ call'.status = "ok" /\ call' # call)
            => Joins]_vars
    /\ [][Joins => \A i \in 1..Len(scope.tasks) :
                      \/ scope.tasks[i].panicked
                      \/ scope.tasks[i].next = scope.parts[i].len]_vars
    /\ [][(Joins /\ call'.status = "ok")
            => /\ \A i \in 1..Len(scope.tasks) :
                     /\ ~scope.tasks[i].panicked
                     /\ scope.tasks[i].next = scope.parts[i].len
               /\ \A k \in 1..Len(scope.writers) : scope.writers[k] # <<>>
               /\ call'.value.data = scope.matr_data]_vars
    /\ [][(Joins /\ \E i \in 1..Len(scope.tasks) : scope.tasks[i].panicked)
            => /\ call'.status = "panic"
               /\ call'.value = NoValue
               /\ mat' = mat]_vars

\* in a build with overflow checks, the task of row 0 panicked (2147483647
\* * 2), the task of row 1 stored its cell, and mul_mat panicked
C13_Witness ==
    /\ call.fn = "mul_mat"
    /\ call.status = "panic"
    /\ call.msg = "called Result::unwrap() on an Err value"
    /\ mat.val = Matrix(2, 1, <<I32Max, 2>>)
    /\ call.args[1] = Matrix(1, 1, <<2>>)
    /\ ~scope.active

\* the mathematical a + b reduced modulo 2^32 into [-2^31, 2^31 - 1]: with
\* a = ah * 2^16 + al and b = bh * 2^16 + bl (0 <= al, bl < 2^16) the sum is
\* (ah + bh + carry) * 2^16 + (al + bl) % 2^16, and a multiple of 2^32 is a
\* multiple of 2^16 in the upper half
Mod32Sum(a, b) ==
    LET lower == (a % 65536) + (b % 65536)
        upper == (a \div 65536) + (b \div 65536) + (lower \div 65536)
    IN  (((upper + 32768) % 65536) - 32768) * 65536 + (lower % 65536)

\* the magnitude of a in base 2^14, lowest digit first
Digits(a) ==
    IF a = I32Min THEN <<0, 0, 8>>
    ELSE <<Abs(a) % 16384, (Abs(a) \div 16384) % 16384, Abs(a) \div 268435456>>

\* the mathematical a * b reduced modulo 2^32 into [-2^31, 2^31 - 1]: the
\* magnitude |a| * |b| is multiplied out in base 2^14, its bits 0..31 are
\* kept and read as a two's complement number, which is negated when the
\* signs of a and b differ
Mod32Product(a, b) ==
    LET d == Digits(a)
        e == Digits(b)
        p0 == d[1] * e[1]
        p1 == d[1] * e[2] + d[2] * e[1] + (p0 \div 16384)
        p2 == d[1] * e[3] + d[2] * e[2] + d[3] * e[1] + (p1 \div 16384)
        top == p2 % 16
        magnitude == (IF top >= 8 THEN top - 16 ELSE top) * 268435456
                        + (p1 % 16384) * 16384 + (p0 % 16384)
    IN  IF (a < 0) = (b < 0) \/ magnitude = I32Min
        THEN magnitude
        ELSE 0 - magnitude

\* the sum over k in 0..n-1 of A[i,k] * B[k,j], reduced modulo 2^32
RECURSIVE Mod32SumProducts(_, _, _, _, _)
Mod32SumProducts(A, B, i, j, n) ==
    IF n = 0 THEN 0
    ELSE Mod32Sum(Mod32SumProducts(A, B, i, j, n - 1),
                  Mod32Product(At(A, i, n - 1), At(B, n - 1, j)))

\* the last call returned the matrix of the wrapped products
WrappedResult ==
    /\ (Finished({"mul_mat"}) /\ mat.val.cols = call.args[1].rows) =>
          LET A == mat.val
              B == call.args[1]
          IN  /\ call.status = "ok"
              /\ call.value.rows = A.rows
              /\ call.value.cols = B.cols
              /\ Len(call.value.data) = A.rows * B.cols
              /\ \A i \in 0..(A.rows - 1), j \in 0..(B.cols - 1) :
                    At(call.value, i, j) = Mod32SumProducts(A, B, i, j, A.cols)
    /\ call.fn \in {"mul_scalar", "scalar_mul"} =>
          LET A == mat.val
              k == call.args[1]
          IN  /\ call.status = "ok"
              /\ Len(call.value.data) = Len(A.data)
              /\ \A i \in 1..Len(A.data) :
                    call.value.data[i] = Mod32Product(A.data[i], k)

\* C14 (as claimed): every product and every running sum of mul_mat, and
\* every product of the scalar multiplication, is the signed 32-bit
\* wraparound of the mathematical value: the call returns, never fails, and
\* each element is the mathematical result reduced modulo 2^32 into
\* [-2^31, 2^31 - 1].
C14_WrapsNeverFails == WrappedResult

\* C14 holds of the build without overflow checks
C14_InUncheckedBuild == ~overflow_checks => WrappedResult

====
